---- MODULE Spec2Model ----
(***************************************************************************)
(* Model of PhaseTwoAnalysis: the muon filter PatMuonFilter::produce and   *)
(* the flat-ntuple producer MiniFromPat::analyze (genAnalysis and          *)
(* recoAnalysis), with the electron and ME0-muon identification helpers.   *)
(*                                                                         *)
(* Fixed-point units (doubles of the source become integers):              *)
(*   pt, isolation sums      0.1 GeV        (pt 100.4 GeV = 1004)          *)
(*   eta, phi, deltaR        0.005          (2.4 = 480, deltaR 0.01 = 2)   *)
(*   relative isolation      0.001          (isolation 1.0 = 1000)         *)
(*   ME0 angles and slopes   0.0001 rad     (0.056 = 560)                  *)
(*   ME0 local x/y           0.1 cm, errors 0.01                           *)
(*   impact parameters       0.01 cm        (0.2 cm = 20)                  *)
(*   momentum p              1 GeV                                         *)
(***************************************************************************)
EXTENDS Integers, Sequences, FiniteSets, TLC

VARIABLES plugin, event, ev_, out, prVtx, pc, el, elId, nullDeref, mu, me0

vars == <<plugin, event, ev_, out, prVtx, pc, el, elId, nullDeref, mu, me0>>

(***************************************************************************)
(* Bounds of the model.                                                    *)
(***************************************************************************)
MaxVtx == 2

(***************************************************************************)
(* Arithmetic helpers.                                                     *)
(***************************************************************************)
Abs(x) == IF x < 0 THEN -x ELSE x

Min(a, b) == IF a < b THEN a ELSE b

Max(a, b) == IF a > b THEN a ELSE b

B2I(b) == IF b THEN 1 ELSE 0

RECURSIVE SeqsUpTo(_, _)
SeqsUpTo(S, n) ==
    IF n = 0 THEN {<<>>}
    ELSE LET shorter == SeqsUpTo(S, n - 1)
         IN  shorter \cup {Append(s, x) : s \in {t \in shorter : Len(t) = n - 1}, x \in S}

(***************************************************************************)
(* Angular distance, as reco::deltaR and ROOT::Math::VectorUtil::DeltaR    *)
(* compute it: the phi difference is wrapped into (-pi, pi], and the       *)
(* result is sqrt(dEta^2 + dPhi^2).  The model compares squares.           *)
(***************************************************************************)
Pi == 628

TwoPi == 1256

DeltaPhi(phi1, phi2) ==
    LET d == phi1 - phi2
    IN  IF d > Pi THEN d - TwoPi
        ELSE IF d <= -Pi THEN d + TwoPi
        ELSE d

DeltaR2(eta1, phi1, eta2, phi2) ==
    (eta1 - eta2) * (eta1 - eta2) + DeltaPhi(phi1, phi2) * DeltaPhi(phi1, phi2)

Sq(x) == x * x

(***************************************************************************)
(* Primary vertex: the loop of PatMuonFilter::produce (131-136) and of     *)
(* MiniFromPat::recoAnalysis (656-661).  A vertex is [isFake, ndof].       *)
(***************************************************************************)
NdofMin == 4

PrVtxStep_lastWins(vertices, i, p) ==
    IF vertices[i + 1].isFake THEN p
    ELSE IF vertices[i + 1].ndof <= NdofMin THEN p
    ELSE i

PrVtxStep(vertices, i, p) ==
    IF vertices[i + 1].isFake THEN p
    ELSE IF vertices[i + 1].ndof <= NdofMin THEN p
    ELSE IF p < 0 THEN i
    ELSE p

RECURSIVE PrVtxLoop(_, _, _)
PrVtxLoop(vertices, i, p) ==
    IF i >= Len(vertices) THEN p
    ELSE PrVtxLoop(vertices, i + 1, PrVtxStep(vertices, i, p))

PrimaryVertex(vertices) == PrVtxLoop(vertices, 0, -1)

(***************************************************************************)
(* atan on slopes 0 .. 1.0, odd, tabulated every 0.1 and interpolated      *)
(* linearly (slopes and angles in units of 0.0001).                        *)
(***************************************************************************)
AtanTable == <<0, 997, 1974, 2915, 3805, 4636, 5404, 6107, 6747, 7328, 7854>>

AtanPos(s) ==
    IF s >= 10000 THEN AtanTable[11]
    ELSE LET k == s \div 1000
         IN  AtanTable[k + 1] + ((AtanTable[k + 2] - AtanTable[k + 1]) * (s % 1000)) \div 1000

Atan(s) == IF s < 0 THEN -AtanPos(-s) ELSE AtanPos(s)

(***************************************************************************)
(* The detector geometry snapshot ME0Geometry_ (set in beginRun): the      *)
(* chambers it knows, and for each the local-to-global transform and the   *)
(* bend angle of a track.  ME0Geometry::chamber returns null for an id it  *)
(* does not know; isME0MuonSelNew calls toGlobal and computeDeltaPhi on    *)
(* that pointer without testing it.  What this undefined behaviour does is *)
(* nullDeref: the process dies ("crash"), or it goes on with whatever the  *)
(* reads gave, and the pair then passes the cuts ("match") or does not     *)
(* ("nomatch").                                                            *)
(***************************************************************************)
NullDerefOutcomes == {"crash", "match", "nomatch"}

ME0Detector == 5

KnownChambers == {1, 2}

ChamberGeom(id) ==
    IF id = 1 THEN [eta0 |-> 25000, phi0 |-> 1000, bend |-> 2]
    ELSE [eta0 |-> 26000, phi0 |-> -3000, bend |-> 4]

GlobalEta(id, x, y) == ChamberGeom(id).eta0 - 10 * y

GlobalPhi(id, x, y) == ChamberGeom(id).phi0 + 10 * x

ComputeDeltaPhi(id, x, y, dXdZ, dYdZ) == (dXdZ * ChamberGeom(id).bend) \div 100

(***************************************************************************)
(* PatMuonFilter::isME0MuonSelNew (278-326): the angle/eta ME0 matching.   *)
(* ME0NewPair is the body of the segment loop for one (chamber, segment),  *)
(* the two loops carry `result` along.  ME0NewCrashes says whether the     *)
(* loop dereferences the null pointer of an unknown chamber.               *)
(***************************************************************************)
ME0NewPair(chamber, segment, dEtaCut, dPhiCut, dPhiBendCut) ==
    LET segDPhi      == Abs(Atan(chamber.dXdZ) - Atan(segment.dXdZ))
        trackDPhi    == ComputeDeltaPhi(chamber.id, chamber.x, chamber.y,
                                        chamber.dXdZ, chamber.dYdZ)
        deltaEta     == Abs(GlobalEta(chamber.id, chamber.x, chamber.y)
                            - GlobalEta(chamber.id, segment.x, segment.y))
        deltaPhi     == Abs(GlobalPhi(chamber.id, chamber.x, chamber.y)
                            - GlobalPhi(chamber.id, segment.x, segment.y))
        deltaPhiBend == Abs(segDPhi - trackDPhi)
    IN  IF chamber.id \notin KnownChambers THEN nullDeref = "match"
        ELSE deltaEta < dEtaCut /\ deltaPhi < dPhiCut /\ deltaPhiBend < dPhiBendCut

RECURSIVE ME0NewSegLoop_lastWins(_, _, _, _, _, _)
ME0NewSegLoop_lastWins(chamber, j, dEtaCut, dPhiCut, dPhiBendCut, result) ==
    IF j > Len(chamber.me0Matches) THEN result
    ELSE ME0NewSegLoop_lastWins(chamber, j + 1, dEtaCut, dPhiCut, dPhiBendCut,
            ME0NewPair(chamber, chamber.me0Matches[j], dEtaCut, dPhiCut, dPhiBendCut))

RECURSIVE ME0NewSegLoop(_, _, _, _, _, _)
ME0NewSegLoop(chamber, j, dEtaCut, dPhiCut, dPhiBendCut, result) ==
    IF j > Len(chamber.me0Matches) THEN result
    ELSE ME0NewSegLoop(chamber, j + 1, dEtaCut, dPhiCut, dPhiBendCut,
            IF ME0NewPair(chamber, chamber.me0Matches[j], dEtaCut, dPhiCut, dPhiBendCut)
            THEN TRUE ELSE result)

RECURSIVE ME0NewChamberLoop(_, _, _, _, _, _)
ME0NewChamberLoop(chambers, i, dEtaCut, dPhiCut, dPhiBendCut, result) ==
    IF i > Len(chambers) THEN result
    ELSE ME0NewChamberLoop(chambers, i + 1, dEtaCut, dPhiCut, dPhiBendCut,
            IF chambers[i].detector = ME0Detector
            THEN ME0NewSegLoop(chambers[i], 1, dEtaCut, dPhiCut, dPhiBendCut, result)
            ELSE result)

isME0MuonSelNew(muon, dEtaCut, dPhiCut, dPhiBendCut) ==
    IF muon.isME0Muon
    THEN ME0NewChamberLoop(muon.matches, 1, dEtaCut, dPhiCut, dPhiBendCut, FALSE)
    ELSE FALSE

ME0NewCrashes(muon) ==
    /\ nullDeref = "crash"
    /\ muon.isME0Muon
    /\ \E i \in 1..Len(muon.matches) :
          /\ muon.matches[i].detector = ME0Detector
          /\ Len(muon.matches[i].me0Matches) > 0
          /\ muon.matches[i].id \notin KnownChambers

(***************************************************************************)
(* isME0MuonSel (PatMuonFilter 232-276, MiniFromPat 873-917): the          *)
(* pull/distance ME0 matching.  The loops overwrite deltaX .. deltaPhi for *)
(* every segment of an ME0 chamber; the cuts are applied after the loops   *)
(* to whatever the last pair left.  A pull is kept as <<residual, sum of   *)
(* the two errors>>: pull = residual / sqrt(sum), NaN or infinite when the *)
(* sum is not positive, and then no comparison with a cut is true.         *)
(***************************************************************************)
ME0SelInit ==
    [deltaX |-> 9990, deltaY |-> 9990, pullX |-> <<999, 1>>, pullY |-> <<999, 1>>,
     deltaPhi |-> 9990000]

ME0SelPair(chamber, segment, acc) ==
    IF chamber.detector = ME0Detector
    THEN [deltaX   |-> Abs(chamber.x - segment.x),
          deltaY   |-> Abs(chamber.y - segment.y),
          pullX    |-> <<Abs(chamber.x - segment.x), chamber.xErr + segment.xErr>>,
          pullY    |-> <<Abs(chamber.y - segment.y), chamber.yErr + segment.yErr>>,
          deltaPhi |-> Abs(Atan(chamber.dXdZ) - Atan(segment.dXdZ))]
    ELSE acc

RECURSIVE ME0SelSegLoop(_, _, _)
ME0SelSegLoop(chamber, j, acc) ==
    IF j > Len(chamber.me0Matches) THEN acc
    ELSE ME0SelSegLoop(chamber, j + 1, ME0SelPair(chamber, chamber.me0Matches[j], acc))

RECURSIVE ME0SelChamberLoop(_, _, _)
ME0SelChamberLoop(chambers, i, acc) ==
    IF i > Len(chambers) THEN acc
    ELSE ME0SelChamberLoop(chambers, i + 1, ME0SelSegLoop(chambers[i], 1, acc))

PullLT(pull, cut) == pull[2] > 0 /\ pull[1] * pull[1] < cut * cut * pull[2]

isME0MuonSel(muon, pullXCut, dXCut, pullYCut, dYCut, dPhi) ==
    IF muon.isME0Muon
    THEN LET acc            == ME0SelChamberLoop(muon.matches, 1, ME0SelInit)
             X_MatchFound   == PullLT(acc.pullX, pullXCut) \/ acc.deltaX < dXCut
             Y_MatchFound   == PullLT(acc.pullY, pullYCut) \/ acc.deltaY < dYCut
             Dir_MatchFound == acc.deltaPhi < dPhi
         IN  X_MatchFound /\ Y_MatchFound /\ Dir_MatchFound
    ELSE FALSE

(***************************************************************************)
(* PatMuonFilter::produce (125-218).                                       *)
(* A muon is a record of the quantities the code reads: pt, eta, phi,      *)
(* charge, p, the outcomes of the standard predicates muon::isLooseMuon,   *)
(* isMediumMuon and isTightMuon (against the primary vertex), the three    *)
(* lepton-subtracted isolation sums, isME0Muon with the chamber matches,   *)
(* and the track quantities innerTrack (non-null), dxy, dz (against the    *)
(* primary vertex), pixelHits and highPurity.                              *)
(***************************************************************************)
FilterPtMin == 20

LeptonEtaMax == 600

ME0EtaMin == 480

DPhiK == 12000

DPhiBendK == 2000

PRef == 100

LooseDEtaCut == 770

LooseDPhiMax == 560

LooseDPhiBendMax == 96

TightDEtaCut == 480

TightDPhiMax == 320

TightDPhiBendMax == 41

IpxyMax == 20

IpzMax == 50

\* std::min(std::max(k/mom, k/100), ceiling)
ClampCut_noFloor(k, mom, ceiling) == Min(k \div mom, ceiling)

ClampCut(k, mom, ceiling) == Min(Max(k \div mom, k \div PRef), ceiling)

FilterPreselected(muon) == ~(muon.pt < FilterPtMin) /\ ~(Abs(muon.eta) > LeptonEtaMax)

\* lines 160-162
FilterIsLoose(muon) == muon.isLooseMuon

FilterIsMedium(muon) == muon.isMediumMuon

FilterIsTight(muon, pv) == pv >= 0 /\ muon.isTightMuon

\* lines 169-175
TrkIpxy(muon) == muon.innerTrack /\ Abs(muon.dxy) < IpxyMax

TrkIpz(muon) == muon.innerTrack /\ Abs(muon.dz) < IpzMax

TrkValidPxlHit(muon) == muon.innerTrack /\ muon.pixelHits > 0

TrkHighPurity(muon) == muon.innerTrack /\ muon.highPurity

\* lines 164-167, 177, 180-182
FilterIsLooseME0(muon) ==
    isME0MuonSelNew(muon, LooseDEtaCut, ClampCut(DPhiK, muon.p, LooseDPhiMax),
                    ClampCut(DPhiBendK, muon.p, LooseDPhiBendMax))

FilterIsMediumME0(muon) ==
    /\ isME0MuonSelNew(muon, LooseDEtaCut, ClampCut(DPhiK, muon.p, LooseDPhiMax),
                       ClampCut(DPhiBendK, muon.p, LooseDPhiBendMax))
    /\ TrkIpxy(muon) /\ TrkValidPxlHit(muon) /\ TrkHighPurity(muon)

FilterIsTightME0_noTrack(muon) ==
    isME0MuonSelNew(muon, TightDEtaCut, ClampCut(DPhiK, muon.p, TightDPhiMax),
                    ClampCut(DPhiBendK, muon.p, TightDPhiBendMax))

FilterIsTightME0(muon) ==
    /\ isME0MuonSelNew(muon, TightDEtaCut, ClampCut(DPhiK, muon.p, TightDPhiMax),
                       ClampCut(DPhiBendK, muon.p, TightDPhiBendMax))
    /\ TrkIpxy(muon) /\ TrkIpz(muon) /\ TrkValidPxlHit(muon) /\ TrkHighPurity(muon)

\* line 184 (and 679, 702)
RelIso_noDivide(c) == 1000 * (c.chIso + c.nhIso + c.phIso)

RelIso(c) == (1000 * (c.chIso + c.nhIso + c.phIso)) \div c.pt

\* lines 186, 191, 196
FilterLooseSel(muon, pv) ==
    FilterIsLoose(muon) \/ (Abs(muon.eta) > ME0EtaMin /\ FilterIsLooseME0(muon))

FilterMediumSel(muon, pv) ==
    FilterIsMedium(muon) \/ (Abs(muon.eta) > ME0EtaMin /\ FilterIsMediumME0(muon))

FilterTightSel(muon, pv) ==
    FilterIsTight(muon, pv) \/ (Abs(muon.eta) > ME0EtaMin /\ FilterIsTightME0(muon))

EmptyOut(status) ==
    [status |-> status,
     LooseMuons  |-> <<>>, LooseMuonRelIso  |-> <<>>,
     MediumMuons |-> <<>>, MediumMuonRelIso |-> <<>>,
     TightMuons  |-> <<>>, TightMuonRelIso  |-> <<>>]

\* The body of the muon loop (153-201) for one muon.  vertices->at(prVtx)
\* throws std::out_of_range when prVtx is -1; an unknown ME0 chamber makes
\* isME0MuonSelNew dereference a null pointer.
ProduceMuon(muon, pv, acc) ==
    IF acc.status # "ok" THEN acc
    ELSE IF ~FilterPreselected(muon) THEN acc
    ELSE IF pv < 0 THEN [acc EXCEPT !.status = "threw"]
    ELSE IF ME0NewCrashes(muon) THEN [acc EXCEPT !.status = "crashed"]
    ELSE LET relIso == RelIso(muon)
             a1 == IF FilterLooseSel(muon, pv)
                   THEN [acc EXCEPT !.LooseMuons = Append(@, muon),
                                    !.LooseMuonRelIso = Append(@, relIso)]
                   ELSE acc
             a2 == IF FilterMediumSel(muon, pv)
                   THEN [a1 EXCEPT !.MediumMuons = Append(@, muon),
                                   !.MediumMuonRelIso = Append(@, relIso)]
                   ELSE a1
         IN  IF FilterTightSel(muon, pv)
             THEN [a2 EXCEPT !.TightMuons = Append(@, muon),
                             !.TightMuonRelIso = Append(@, relIso)]
             ELSE a2

RECURSIVE ProduceLoop(_, _, _, _)
ProduceLoop(muons, pv, i, acc) ==
    IF i > Len(muons) THEN acc
    ELSE ProduceLoop(muons, pv, i + 1, ProduceMuon(muons[i], pv, acc))

\* What the event holds after produce: the six sequences put at 210-215, or
\* nothing when the loop threw or crashed.
ProduceResult(vertices, muons) ==
    LET acc == ProduceLoop(muons, PrimaryVertex(vertices), 1, EmptyOut("ok"))
    IN  IF acc.status = "ok" THEN acc ELSE EmptyOut(acc.status)

(***************************************************************************)
(* The ntuple record ev_ (MiniEvent_t): counters and fixed-capacity        *)
(* arrays, indexed from 0.  Set(rec, f, k, v) is the store rec.f[k] = v.   *)
(***************************************************************************)
MaxObj == 2

Cap == 2 * MaxObj + 1

Idx == 0..(Cap - 1)

Counters == {"ngl", "ngj", "nl", "nj", "nmet", "npf", "run", "lumi", "event"}

Arrays ==
    {"gl_pid", "gl_pt", "gl_phi", "gl_eta", "gl_mass", "gl_relIso",
     "gj_pt", "gj_phi", "gj_eta", "gj_mass", "gj_pid",
     "l_id", "l_pid", "l_pt", "l_phi", "l_eta", "l_relIso", "l_g",
     "j_id", "j_pt", "j_phi", "j_eta", "j_mass", "j_csvv2", "j_deepcsv",
     "j_flav", "j_hadflav", "j_pid", "j_g",
     "met_pt", "met_phi",
     "pf_pid", "pf_pt", "pf_eta", "pf_phi", "pf_mass", "pf_relIso", "pf_hp"}

Set(rec, f, k, v) == [rec EXCEPT ![f] = [@ EXCEPT ![k] = v]]

\* A record whose counters are all n and whose array cells are all v.
FilledRecord(n, v) ==
    [f \in Counters \cup Arrays |-> IF f \in Counters THEN n ELSE [k \in Idx |-> v]]

IsLepton(pdgId) == Abs(pdgId) = 11 \/ Abs(pdgId) = 13

(***************************************************************************)
(* MiniFromPat::genAnalysis (561-624).                                     *)
(* A generator particle is [pdgId, pt, eta, phi, mass]; a generator jet is *)
(* [pt, eta, phi, mass, pdgId, constituents], each constituent             *)
(* [pt, eta, phi].                                                         *)
(***************************************************************************)
JetPtMin == 200

JetEtaMax == 1000

LeptonPtMin == 100

OverlapDR == 2

OverlapPtPercent == 100

GenIsoJetDR == 140

SelfDR == 2

Cone04 == 80

Cone03 == 60

MatchDR == 80

\* line 581 (and 720, 727): |jet pt - lepton pt| < 0.01 * lepton pt and deltaR < 0.01
OverlapsLepton_either(jet, lep) ==
    \/ OverlapPtPercent * Abs(jet.pt - lep.pt) < lep.pt
    \/ DeltaR2(lep.eta, lep.phi, jet.eta, jet.phi) < Sq(OverlapDR)

OverlapsLepton(jet, lep) ==
    /\ OverlapPtPercent * Abs(jet.pt - lep.pt) < lep.pt
    /\ DeltaR2(lep.eta, lep.phi, jet.eta, jet.phi) < Sq(OverlapDR)

\* lines 578-585
RECURSIVE GenOverlapLoop(_, _, _)
GenOverlapLoop(jet, genParts, j) ==
    IF j > Len(genParts) THEN FALSE
    ELSE IF ~IsLepton(genParts[j].pdgId) THEN GenOverlapLoop(jet, genParts, j + 1)
    ELSE IF OverlapsLepton(jet, genParts[j]) THEN TRUE
    ELSE GenOverlapLoop(jet, genParts, j + 1)

\* lines 574-595; st is [rec, jGenJets]
GenJetStep(genJets, genParts, i, st) ==
    LET jet == genJets[i]
        n   == st.rec.ngj
    IN  IF jet.pt < JetPtMin THEN st
        ELSE IF Abs(jet.eta) > JetEtaMax THEN st
        ELSE IF GenOverlapLoop(jet, genParts, 1) THEN st
        ELSE [rec |-> [Set(Set(Set(Set(Set(st.rec,
                          "gj_pt", n, jet.pt), "gj_phi", n, jet.phi), "gj_eta", n, jet.eta),
                          "gj_mass", n, jet.mass), "gj_pid", n, jet.pdgId)
                       EXCEPT !.ngj = n + 1],
              jGenJets |-> Append(st.jGenJets, i)]

RECURSIVE GenJetLoop(_, _, _, _)
GenJetLoop(genJets, genParts, i, st) ==
    IF i > Len(genJets) THEN st
    ELSE GenJetLoop(genJets, genParts, i + 1, GenJetStep(genJets, genParts, i, st))

\* lines 607-613: the constituents of one generator jet
GenIsoTakes(lep, c) ==
    LET deltaR2 == DeltaR2(lep.eta, lep.phi, c.eta, c.phi)
    IN  /\ ~(deltaR2 < Sq(SelfDR))
        /\ ~(Abs(lep.pdgId) = 13 /\ deltaR2 > Sq(Cone04))
        /\ ~(Abs(lep.pdgId) = 11 /\ deltaR2 > Sq(Cone03))

RECURSIVE GenIsoConstLoop(_, _, _, _)
GenIsoConstLoop(lep, jconst, k, genIso) ==
    IF k > Len(jconst) THEN genIso
    ELSE GenIsoConstLoop(lep, jconst, k + 1,
            IF GenIsoTakes(lep, jconst[k]) THEN genIso + jconst[k].pt ELSE genIso)

\* lines 604-614
RECURSIVE GenIsoJetLoop(_, _, _, _, _)
GenIsoJetLoop(lep, genJets, jGenJets, j, genIso) ==
    IF j > Len(jGenJets) THEN genIso
    ELSE LET jet == genJets[jGenJets[j]]
         IN  GenIsoJetLoop(lep, genJets, jGenJets, j + 1,
                IF DeltaR2(lep.eta, lep.phi, jet.eta, jet.phi) > Sq(GenIsoJetDR)
                THEN genIso
                ELSE GenIsoConstLoop(lep, jet.constituents, 1, genIso))

\* line 615
GenRelIso(lep, genJets, jGenJets) ==
    (1000 * GenIsoJetLoop(lep, genJets, jGenJets, 1, 0)) \div lep.pt

\* lines 599-623
GenLepStep(genParts, genJets, jGenJets, i, rec) ==
    LET lep == genParts[i]
        n   == rec.ngl
    IN  IF ~IsLepton(lep.pdgId) THEN rec
        ELSE IF lep.pt < LeptonPtMin THEN rec
        ELSE IF Abs(lep.eta) > LeptonEtaMax THEN rec
        ELSE [Set(Set(Set(Set(Set(Set(rec,
                 "gl_pid", n, lep.pdgId), "gl_pt", n, lep.pt), "gl_phi", n, lep.phi),
                 "gl_eta", n, lep.eta), "gl_mass", n, lep.mass),
                 "gl_relIso", n, GenRelIso(lep, genJets, jGenJets))
              EXCEPT !.ngl = n + 1]

RECURSIVE GenLepLoop(_, _, _, _, _)
GenLepLoop(genParts, genJets, jGenJets, i, rec) ==
    IF i > Len(genParts) THEN rec
    ELSE GenLepLoop(genParts, genJets, jGenJets, i + 1,
                    GenLepStep(genParts, genJets, jGenJets, i, rec))

genAnalysis(e, rec) ==
    LET st == GenJetLoop(e.genJets, e.genParts, 1,
                         [rec |-> [rec EXCEPT !.ngj = 0], jGenJets |-> <<>>])
    IN  GenLepLoop(e.genParts, e.genJets, st.jGenJets, 1, [st.rec EXCEPT !.ngl = 0])

(***************************************************************************)
(* Electron identification: MiniFromPat::isLooseElec (816-832),            *)
(* isMediumElec (835-851), isTightElec (854-870).                          *)
(* An electron is [pt, eta, phi, charge, chIso, nhIso, phIso, scEta,       *)
(* sieie, dEtaIn, dPhiIn, hOverE, sumChargedHadronPt, ecalEnergy, eOverP,  *)
(* hasConv].  Units: scEta 0.001, sieie and dPhiIn 0.00001, dEtaIn         *)
(* 0.000001, hOverE 0.001, eOverP 0.01; ecalEnergy is [kind, v] with kind  *)
(* "finite", "nan" or "inf" and v in 0.001 GeV.  Ooemoop is the rational   *)
(* <<numerator, denominator>> in 1/GeV; its cuts are in 0.01/GeV.          *)
(***************************************************************************)
GapLow == 1479

GapHigh == 1556

LooseSieie == 2992

LooseDEtaIn == 4119

LooseDPhiIn == 5176

LooseHoE == 6741

LooseChIso == 2500

LooseOoemoop == 7376

MediumSieie == 1609

MediumDEtaIn == 1766

MediumDPhiIn == 3130

MediumHoE == 7371

MediumChIso == 1325

MediumOoemoop == 2260

TightSieie == 1614

TightDEtaIn == 1322

TightDPhiIn == 6129

TightHoE == 4492

TightChIso == 1255

TightOoemoop == 1826

OoemoopSentinel == 998

\* lines 825-828 (844-847, 863-866)
Ooemoop_noSentinel(patEl) ==
    IF patEl.ecalEnergy.kind # "finite" \/ patEl.ecalEnergy.v = 0 THEN <<0, 1>>
    ELSE <<10 * Abs(100 - patEl.eOverP), Abs(patEl.ecalEnergy.v)>>

Ooemoop(patEl) ==
    IF patEl.ecalEnergy.kind = "finite" /\ patEl.ecalEnergy.v = 0 THEN <<0, 1>>
    ELSE IF patEl.ecalEnergy.kind # "finite" THEN <<OoemoopSentinel, 1>>
    ELSE <<10 * Abs(100 - patEl.eOverP), Abs(patEl.ecalEnergy.v)>>

RatGT(q, cut) == 100 * q[1] > cut * q[2]

\* The cut sequence the three predicates share, with the tier's thresholds.
ElecCuts(patEl, sieie, dEtaIn, dPhiIn, hoe, chIso, ooemoop) ==
    IF Abs(patEl.scEta) > GapLow /\ Abs(patEl.scEta) < GapHigh THEN FALSE
    ELSE IF patEl.sieie > sieie THEN FALSE
    ELSE IF Abs(patEl.dEtaIn) > dEtaIn THEN FALSE
    ELSE IF Abs(patEl.dPhiIn) > dPhiIn THEN FALSE
    ELSE IF patEl.hOverE > hoe THEN FALSE
    ELSE IF 1000 * patEl.sumChargedHadronPt > chIso * patEl.pt THEN FALSE
    ELSE IF RatGT(Ooemoop(patEl), ooemoop) THEN FALSE
    ELSE IF patEl.hasConv THEN FALSE
    ELSE TRUE

isLooseElec(patEl) ==
    ElecCuts(patEl, LooseSieie, LooseDEtaIn, LooseDPhiIn, LooseHoE, LooseChIso, LooseOoemoop)

isMediumElec_tightEta(patEl) ==
    ElecCuts(patEl, MediumSieie, 1000, MediumDPhiIn, MediumHoE, MediumChIso, MediumOoemoop)

isMediumElec(patEl) ==
    ElecCuts(patEl, MediumSieie, MediumDEtaIn, MediumDPhiIn, MediumHoE, MediumChIso,
             MediumOoemoop)

isTightElec(patEl) ==
    ElecCuts(patEl, TightSieie, TightDEtaIn, TightDPhiIn, TightHoE, TightChIso, TightOoemoop)

(***************************************************************************)
(* MiniFromPat::recoAnalysis (628-795).                                    *)
(* A jet is [pt, eta, phi, mass, looseId, tightId, csvv2, probb, probbb,   *)
(* partonFlavour, hadronFlavour, hasGenParton, genPartonPdgId]; a MET is   *)
(* [pt, phi]; a PF candidate is [pdgId, pt, eta, phi, mass,                *)
(* trackHighPurity].                                                       *)
(***************************************************************************)
PullCut == 3

DistCut == 40

NtLooseDPhi == 5000

NtMediumDPhi == 3000

NtTightDPhi == 1000

\* lines 670-672
NtIsLoose(muon) ==
    \/ (Abs(muon.eta) < ME0EtaMin /\ muon.isLooseMuon)
    \/ (Abs(muon.eta) > ME0EtaMin
        /\ isME0MuonSel(muon, PullCut, DistCut, PullCut, DistCut, NtLooseDPhi))

NtIsMedium(muon) ==
    \/ (Abs(muon.eta) < ME0EtaMin /\ muon.isMediumMuon)
    \/ (Abs(muon.eta) > ME0EtaMin
        /\ isME0MuonSel(muon, PullCut, DistCut, PullCut, DistCut, NtMediumDPhi))

NtIsTight(muon, vertices) ==
    \/ (Abs(muon.eta) < ME0EtaMin /\ Len(vertices) > 0 /\ muon.isTightMuon)
    \/ (Abs(muon.eta) > ME0EtaMin
        /\ isME0MuonSel(muon, PullCut, DistCut, PullCut, DistCut, NtTightDPhi))

\* lines 674, 697: isTight | isMedium<<1 | isLoose<<2
LeptonId(isTight, isMedium, isLoose) == B2I(isTight) + 2 * B2I(isMedium) + 4 * B2I(isLoose)

\* lines 680-685 (703-708): the last generator lepton of the record with the
\* same |pid| within deltaR 0.4
RECURSIVE LepGenLoop_firstWins(_, _, _, _)
LepGenLoop_firstWins(rec, n, ig, g) ==
    IF ig >= rec.ngl THEN g
    ELSE IF Abs(rec.gl_pid[ig]) # Abs(rec.l_pid[n])
         THEN LepGenLoop_firstWins(rec, n, ig + 1, g)
    ELSE IF DeltaR2(rec.gl_eta[ig], rec.gl_phi[ig], rec.l_eta[n], rec.l_phi[n]) > Sq(MatchDR)
         THEN LepGenLoop_firstWins(rec, n, ig + 1, g)
    ELSE ig

RECURSIVE LepGenLoop(_, _, _, _)
LepGenLoop(rec, n, ig, g) ==
    IF ig >= rec.ngl THEN g
    ELSE IF Abs(rec.gl_pid[ig]) # Abs(rec.l_pid[n]) THEN LepGenLoop(rec, n, ig + 1, g)
    ELSE IF DeltaR2(rec.gl_eta[ig], rec.gl_phi[ig], rec.l_eta[n], rec.l_phi[n]) > Sq(MatchDR)
         THEN LepGenLoop(rec, n, ig + 1, g)
    ELSE LepGenLoop(rec, n, ig + 1, ig)

\* lines 674-686 and 697-709: store one lepton at index nl
StoreLepton(rec, id, pid, lep) ==
    LET n  == rec.nl
        r1 == Set(Set(Set(Set(Set(Set(Set(rec,
                 "l_id", n, id), "l_pid", n, pid), "l_pt", n, lep.pt), "l_phi", n, lep.phi),
                 "l_eta", n, lep.eta), "l_relIso", n, RelIso(lep)), "l_g", n, -1)
    IN  [Set(r1, "l_g", n, LepGenLoop(r1, n, 0, -1)) EXCEPT !.nl = n + 1]

\* lines 666-687
RecoMuonStep(muon, vertices, rec) ==
    IF muon.pt < LeptonPtMin THEN rec
    ELSE IF Abs(muon.eta) > LeptonEtaMax THEN rec
    ELSE StoreLepton(rec,
            LeptonId(NtIsTight(muon, vertices), NtIsMedium(muon), NtIsLoose(muon)),
            muon.charge * 13, muon)

RECURSIVE RecoMuonLoop(_, _, _, _)
RecoMuonLoop(muons, vertices, i, rec) ==
    IF i > Len(muons) THEN rec
    ELSE RecoMuonLoop(muons, vertices, i + 1, RecoMuonStep(muons[i], vertices, rec))

\* lines 689-710
RecoElecStep(elec, rec) ==
    IF elec.pt < LeptonPtMin THEN rec
    ELSE IF Abs(elec.eta) > LeptonEtaMax THEN rec
    ELSE StoreLepton(rec,
            LeptonId(isTightElec(elec), isMediumElec(elec), isLooseElec(elec)),
            elec.charge * 11, elec)

RECURSIVE RecoElecLoop(_, _, _)
RecoElecLoop(elecs, i, rec) ==
    IF i > Len(elecs) THEN rec
    ELSE RecoElecLoop(elecs, i + 1, RecoElecStep(elecs[i], rec))

\* lines 719-724 and 726-731: the first lepton of the list that overlaps
RECURSIVE JetOverlapLoop(_, _, _)
JetOverlapLoop(jet, leps, j) ==
    IF j > Len(leps) THEN FALSE
    ELSE IF OverlapsLepton(jet, leps[j]) THEN TRUE
    ELSE JetOverlapLoop(jet, leps, j + 1)

\* line 741: isTight | isLoose<<1
JetId(isTight, isLoose) == B2I(isTight) + 2 * B2I(isLoose)

\* lines 752-757: the first generator jet of the record within deltaR 0.4
RECURSIVE JetGenLoop(_, _, _)
JetGenLoop(rec, n, ig) ==
    IF ig >= rec.ngj THEN -1
    ELSE IF DeltaR2(rec.gj_eta[ig], rec.gj_phi[ig], rec.j_eta[n], rec.j_phi[n]) > Sq(MatchDR)
         THEN JetGenLoop(rec, n, ig + 1)
    ELSE ig

\* line 741: the index the identifier is stored at
JetIdIndex(rec) == rec.nl

\* lines 734-758: store one jet at index nj
StoreJet(rec, jet) ==
    LET n  == rec.nj
        r1 == Set(rec, "j_id", JetIdIndex(rec), JetId(jet.tightId, jet.looseId))
        r2 == Set(Set(Set(Set(Set(Set(Set(Set(Set(Set(r1,
                 "j_pt", n, jet.pt), "j_phi", n, jet.phi), "j_eta", n, jet.eta),
                 "j_mass", n, jet.mass), "j_csvv2", n, jet.csvv2),
                 "j_deepcsv", n, jet.probb + jet.probbb), "j_flav", n, jet.partonFlavour),
                 "j_hadflav", n, jet.hadronFlavour),
                 "j_pid", n, IF jet.hasGenParton THEN jet.genPartonPdgId ELSE 0),
                 "j_g", n, -1)
    IN  [Set(r2, "j_g", n, JetGenLoop(r2, n, 0)) EXCEPT !.nj = n + 1]

\* lines 714-760
RecoJetStep(jet, elecs, muons, rec) ==
    IF jet.pt < JetPtMin THEN rec
    ELSE IF Abs(jet.eta) > JetEtaMax THEN rec
    ELSE IF JetOverlapLoop(jet, elecs, 1) THEN rec
    ELSE IF JetOverlapLoop(jet, muons, 1) THEN rec
    ELSE StoreJet(rec, jet)

RECURSIVE RecoJetLoop(_, _, _, _, _)
RecoJetLoop(jets, elecs, muons, i, rec) ==
    IF i > Len(jets) THEN rec
    ELSE RecoJetLoop(jets, elecs, muons, i + 1, RecoJetStep(jets[i], elecs, muons, rec))

\* lines 763-768
RecoMet(mets, rec) ==
    IF Len(mets) > 0
    THEN [Set(Set([rec EXCEPT !.nmet = 0], "met_pt", 0, mets[1].pt), "met_phi", 0, mets[1].phi)
          EXCEPT !.nmet = 1]
    ELSE [rec EXCEPT !.nmet = 0]

\* line 779: the cone of the PF isolation
PfCone(pdgId) == IF Abs(pdgId) = 11 THEN Cone04 ELSE Cone03

\* lines 778-781
PfIsoTakes(cand, other) ==
    ~(DeltaR2(cand.eta, cand.phi, other.eta, other.phi) > Sq(PfCone(cand.pdgId)))

RECURSIVE PfIsoLoop(_, _, _, _)
PfIsoLoop(cand, pfCands, k, isoPF) ==
    IF k > Len(pfCands) THEN isoPF
    ELSE PfIsoLoop(cand, pfCands, k + 1,
            IF PfIsoTakes(cand, pfCands[k]) THEN isoPF + pfCands[k].pt ELSE isoPF)

\* line 782
PfRelIso(cand, pfCands) == (1000 * PfIsoLoop(cand, pfCands, 1, 0)) \div cand.pt

\* lines 772-793
RecoPfStep(pfCands, i, rec) ==
    LET cand == pfCands[i]
        n    == rec.npf
    IN  IF ~IsLepton(cand.pdgId) THEN rec
        ELSE IF cand.pt < LeptonPtMin THEN rec
        ELSE IF Abs(cand.eta) > LeptonEtaMax THEN rec
        ELSE [Set(Set(Set(Set(Set(Set(Set(rec,
                 "pf_pid", n, cand.pdgId), "pf_pt", n, cand.pt), "pf_eta", n, cand.eta),
                 "pf_phi", n, cand.phi), "pf_mass", n, cand.mass),
                 "pf_relIso", n, PfRelIso(cand, pfCands)),
                 "pf_hp", n, B2I(cand.trackHighPurity))
              EXCEPT !.npf = n + 1]

RECURSIVE RecoPfLoop(_, _, _)
RecoPfLoop(pfCands, i, rec) ==
    IF i > Len(pfCands) THEN rec
    ELSE RecoPfLoop(pfCands, i + 1, RecoPfStep(pfCands, i, rec))

recoAnalysis(e, rec) ==
    IF PrimaryVertex(e.vertices) < 0 THEN rec
    ELSE LET r1 == RecoMuonLoop(e.muons, e.vertices, 1, [rec EXCEPT !.nl = 0])
             r2 == RecoElecLoop(e.elecs, 1, r1)
             r3 == RecoJetLoop(e.jets, e.elecs, e.muons, 1, [r2 EXCEPT !.nj = 0])
             r4 == RecoMet(e.mets, r3)
         IN  RecoPfLoop(e.pfCands, 1, [r4 EXCEPT !.npf = 0])

\* lines 799-812: the record handed to tree_->Fill()
analyze(e, rec) ==
    LET r1 == IF ~e.isRealData THEN genAnalysis(e, rec) ELSE rec
        r2 == recoAnalysis(e, r1)
    IN  [r2 EXCEPT !.run = e.run, !.lumi = e.lumi, !.event = e.event]

(***************************************************************************)
(* Input objects the events are built from.                                *)
(***************************************************************************)
Vertex(isFake, ndof) == [isFake |-> isFake, ndof |-> ndof]

VertexKinds == {Vertex(f, n) : f \in BOOLEAN, n \in {NdofMin, NdofMin + 1}}

GoodVtx == Vertex(FALSE, NdofMin + 1)

Segment(x, y, dXdZ) == [x |-> x, y |-> y, xErr |-> 1, yErr |-> 1, dXdZ |-> dXdZ]

Chamber(id, detector, segs) ==
    [id |-> id, detector |-> detector, x |-> 0, y |-> 0, xErr |-> 1, yErr |-> 1,
     dXdZ |-> 100, dYdZ |-> 0, me0Matches |-> segs]

\* chamber matches: none; an ME0 segment inside every cut; one inside the
\* loose but outside the tight deltaEta cut; one outside every cut; a
\* segment of a chamber that is not ME0
NoMatch == <<>>

GoodMatch == <<Chamber(1, ME0Detector, <<Segment(1, 1, 110)>>)>>

LooseMatch == <<Chamber(2, ME0Detector, <<Segment(1, 60, 110)>>)>>

BadMatch == <<Chamber(1, ME0Detector, <<Segment(100, 1, 110)>>)>>

OtherDetMatch == <<Chamber(1, 3, <<Segment(1, 1, 110)>>)>>

MatchKinds == {NoMatch, GoodMatch, LooseMatch, BadMatch, OtherDetMatch}

\* std is the number of standard predicates passed: 0 none, 1 loose,
\* 2 loose and medium, 3 all three
Muon(pt, eta, phi, std, matches, trkOk) ==
    [pt |-> pt, eta |-> eta, phi |-> phi, charge |-> -1, p |-> 100,
     isLooseMuon |-> std >= 1, isMediumMuon |-> std >= 2, isTightMuon |-> std >= 3,
     chIso |-> 30 + 10 * std, nhIso |-> 10 + Abs(eta) \div 20, phIso |-> 10,
     isME0Muon |-> matches # <<>>, matches |-> matches,
     innerTrack |-> TRUE, dxy |-> IF trkOk THEN 5 ELSE 30, dz |-> IF trkOk THEN 10 ELSE 60,
     pixelHits |-> 2, highPurity |-> trkOk]

Electron(pt, eta, phi, sieie, dEtaIn, dPhiIn, hOverE, chPt, ecalEnergy) ==
    [pt |-> pt, eta |-> eta, phi |-> phi, charge |-> 1,
     chIso |-> 20, nhIso |-> 10, phIso |-> 0,
     scEta |-> 5 * eta, sieie |-> sieie, dEtaIn |-> dEtaIn, dPhiIn |-> dPhiIn,
     hOverE |-> hOverE, sumChargedHadronPt |-> chPt, ecalEnergy |-> ecalEnergy,
     eOverP |-> 98, hasConv |-> FALSE]

Finite(v) == [kind |-> "finite", v |-> v]

Jet(pt, eta, phi, looseId, tightId) ==
    [pt |-> pt, eta |-> eta, phi |-> phi, mass |-> 50, looseId |-> looseId,
     tightId |-> tightId, csvv2 |-> 500, probb |-> 300, probbb |-> 100,
     partonFlavour |-> 5, hadronFlavour |-> 5, hasGenParton |-> FALSE,
     genPartonPdgId |-> 0]

Particle(pdgId, pt, eta, phi) ==
    [pdgId |-> pdgId, pt |-> pt, eta |-> eta, phi |-> phi, mass |-> 1,
     trackHighPurity |-> TRUE]

GenJet(pt, eta, phi, constituents) ==
    [pt |-> pt, eta |-> eta, phi |-> phi, mass |-> 50, pdgId |-> 0,
     constituents |-> constituents]

Met(pt, phi) == [pt |-> pt, phi |-> phi]

EmptyEvent ==
    [isRealData |-> FALSE, run |-> 1, lumi |-> 1, event |-> 1,
     vertices |-> <<>>, muons |-> <<>>, elecs |-> <<>>, jets |-> <<>>, mets |-> <<>>,
     pfCands |-> <<>>, genParts |-> <<>>, genJets |-> <<>>]

NoElec == Electron(1, 0, 0, 0, 0, 0, 0, 0, Finite(1))

NoElecId == [done |-> FALSE, loose |-> FALSE, medium |-> FALSE, tight |-> FALSE]

NoMuon == Muon(1000, 0, 0, 0, NoMatch, TRUE)

NoME0 ==
    [done |-> FALSE, crashed |-> FALSE, isLooseME0 |-> FALSE, isMediumME0 |-> FALSE,
     isTightME0 |-> FALSE, selDone |-> FALSE, isME0MuonSel |-> FALSE,
     dPhiCutLoose |-> 0, dPhiBendCutLoose |-> 0, dPhiCutTight |-> 0, dPhiBendCutTight |-> 0]

(***************************************************************************)
(* The state machine.  plugin is the module the job runs; event is the     *)
(* event being processed; out is what PatMuonFilter::produce put into it;  *)
(* ev_ is the member MiniFromPat::ev_, which the constructor (523-543)     *)
(* leaves uninitialised: it starts as any of InitRecords.  prVtx is the    *)
(* local of the last produce or recoAnalysis.  el and elId are the         *)
(* argument and results of the electron predicates evaluated on their own, *)
(* mu and me0 those of the ME0 muon selections.                            *)
(***************************************************************************)
InitRecords == {FilledRecord(0, 0), FilledRecord(1, 7)}

Init ==
    /\ plugin \in {"PatMuonFilter", "MiniFromPat"}
    /\ event = EmptyEvent
    /\ ev_ \in InitRecords
    /\ out = EmptyOut("none")
    /\ prVtx = -1
    /\ pc = "init"
    /\ el = NoElec
    /\ elId = NoElecId
    /\ nullDeref \in (IF plugin = "PatMuonFilter" THEN NullDerefOutcomes ELSE {"crash"})
    /\ mu = NoMuon
    /\ me0 = NoME0

Produce(e) ==
    /\ plugin = "PatMuonFilter"
    /\ event' = e
    /\ prVtx' = PrimaryVertex(e.vertices)
    /\ out' = ProduceResult(e.vertices, e.muons)
    /\ pc' = "produce"
    /\ UNCHANGED <<plugin, ev_, el, elId, nullDeref, mu, me0>>

Analyze(e) ==
    /\ plugin = "MiniFromPat"
    /\ event' = e
    /\ prVtx' = PrimaryVertex(e.vertices)
    /\ ev_' = analyze(e, ev_)
    /\ pc' = "analyze"
    /\ UNCHANGED <<plugin, out, el, elId, nullDeref, mu, me0>>

(***************************************************************************)
(* Events that vary the vertex list.                                       *)
(***************************************************************************)
StdMuon == Muon(1000, 0, 0, 3, NoMatch, TRUE)

SoftMuon == Muon(15, 0, 0, 3, NoMatch, TRUE)

VtxEvents ==
    {[EmptyEvent EXCEPT !.vertices = v, !.muons = m] :
        v \in SeqsUpTo(VertexKinds, MaxVtx),
        m \in {<<>>, <<StdMuon>>, <<SoftMuon>>, <<SoftMuon, StdMuon>>}}

NextVtx == \E e \in VtxEvents : Produce(e) \/ Analyze(e)

SpecVtx == Init /\ [][NextVtx]_vars

(***************************************************************************)
(* Events that vary the muons: every single muon of MuonGrid, and the      *)
(* lists of up to MaxObj muons of MuonListKinds, with a valid vertex, and   *)
(* three events without any vertex.                                        *)
(***************************************************************************)
MuonGrid ==
    {Muon(1000, eta, 0, std, m, trk) :
        eta \in {100, ME0EtaMin, 500}, std \in 0..3, m \in MatchKinds, trk \in BOOLEAN}

FwdMuon == Muon(400, -520, 300, 0, GoodMatch, TRUE)

LowPtMuon == Muon(50, 100, -300, 2, NoMatch, TRUE)

MuonListKinds == {StdMuon, FwdMuon, LowPtMuon}

MuonEvents ==
    {[EmptyEvent EXCEPT !.vertices = <<GoodVtx>>, !.muons = m] :
        m \in {<<g>> : g \in MuonGrid} \cup SeqsUpTo(MuonListKinds, MaxObj)}
    \cup {[EmptyEvent EXCEPT !.muons = m] : m \in {<<>>, <<StdMuon>>, <<FwdMuon, StdMuon>>}}

NextMuon == \E e \in MuonEvents : Produce(e) \/ Analyze(e)

SpecMuon == Init /\ [][NextMuon]_vars

(***************************************************************************)
(* Events that vary the jets: every single jet of JetGrid and the lists of *)
(* up to MaxObj jets of JetListKinds, next to a 100 GeV muon at (0, 0) and *)
(* a 50 GeV electron at (1.0, 0.5); and one jet alone, with and without a  *)
(* valid vertex.                                                           *)
(***************************************************************************)
GoodElec == Electron(500, 200, 100, 900, 1000, 2000, 50, 100, Finite(50000))

JetGrid ==
    {Jet(pt, 0, phi, TRUE, TRUE) : pt \in {990, 1009, 1010}, phi \in {1, 2}}
    \cup {Jet(pt, 200, 101, TRUE, FALSE) : pt \in {199, 200, 496}}
    \cup {Jet(1004, eta, 0, FALSE, FALSE) : eta \in {1, 2, JetEtaMax, JetEtaMax + 1}}

NearMuonJet == Jet(1004, 0, 1, TRUE, TRUE)

FarMuonJet == Jet(1004, 0, 4, TRUE, FALSE)

NearElecJet == Jet(502, 200, 101, FALSE, FALSE)

JetListKinds == {NearMuonJet, FarMuonJet, NearElecJet}

JetEvents ==
    {[EmptyEvent EXCEPT !.vertices = <<GoodVtx>>, !.muons = <<StdMuon>>,
                        !.elecs = <<GoodElec>>, !.jets = j] :
        j \in {<<g>> : g \in JetGrid} \cup SeqsUpTo(JetListKinds, MaxObj)}
    \cup {[EmptyEvent EXCEPT !.vertices = v, !.jets = <<FarMuonJet>>] : v \in {<<>>, <<GoodVtx>>}}

NextJets == \E e \in JetEvents : Analyze(e)

SpecJets == Init /\ [][NextJets]_vars

(***************************************************************************)
(* Events that vary the isolation pools: lists of up to MaxObj PF          *)
(* candidates (a muon at (0, 0), an electron at (0.7, 0), a hadron at      *)
(* (0.35, 0), which is 0.35 away from both), and lists of up to MaxObj     *)
(* generator leptons at the same places next to generator jets whose       *)
(* constituents are that hadron or the muon itself.                        *)
(***************************************************************************)
PfMuon == Particle(13, 200, 0, 0)

PfElec == Particle(-11, 200, 140, 0)

PfHadron == Particle(211, 50, 70, 0)

PfKinds == {PfMuon, PfElec, PfHadron}

Constituent(c) == [pt |-> c.pt, eta |-> c.eta, phi |-> c.phi]

HadronJet == GenJet(300, 70, 0, <<Constituent(PfHadron)>>)

SelfJet == GenJet(300, 1, 0, <<Constituent(PfMuon)>>)

IsoEvents ==
    {[EmptyEvent EXCEPT !.vertices = <<GoodVtx>>, !.pfCands = c] :
        c \in SeqsUpTo(PfKinds, MaxObj)}
    \cup {[EmptyEvent EXCEPT !.vertices = <<GoodVtx>>, !.genParts = g, !.genJets = j] :
            g \in SeqsUpTo({PfMuon, PfElec}, MaxObj),
            j \in {<<>>, <<HadronJet>>, <<SelfJet>>, <<SelfJet, HadronJet>>}}

NextIso == \E e \in IsoEvents : Analyze(e)

SpecIso == Init /\ [][NextIso]_vars

(***************************************************************************)
(* The electron predicates on their own: el is drawn from ElecGrid, whose  *)
(* values lie on both sides of every threshold of the three tiers, and     *)
(* EvalElec applies the three predicates to it.                            *)
(***************************************************************************)
NotFinite(kind) == [kind |-> kind, v |-> 0]

ElecGrid ==
    {[Electron(100, 0, 0, sieie, dEtaIn, dPhiIn, hOverE, chPt, ecalEnergy)
        EXCEPT !.scEta = scEta, !.eOverP = 0, !.hasConv = conv] :
        sieie \in {1600, 1610, 1620, 3000},
        dEtaIn \in {1000, 1300, 1500, 2000, 5000},
        dPhiIn \in {3000, -4000, 6000, 7000},
        hOverE \in {4000, 5000, 7000, 8000},
        chPt \in {100, 130, 200, 300},
        ecalEnergy \in {Finite(0), Finite(10), Finite(30), Finite(50), Finite(60),
                        NotFinite("nan"), NotFinite("inf")},
        scEta \in {1000, -1500},
        conv \in BOOLEAN}

InitElec ==
    /\ plugin = "MiniFromPat"
    /\ event = EmptyEvent
    /\ ev_ = FilledRecord(0, 0)
    /\ out = EmptyOut("none")
    /\ prVtx = -1
    /\ pc = "init"
    /\ el \in ElecGrid
    /\ elId = NoElecId
    /\ nullDeref = "crash"
    /\ mu = NoMuon
    /\ me0 = NoME0

EvalElec ==
    /\ ~elId.done
    /\ elId' = [done |-> TRUE, loose |-> isLooseElec(el), medium |-> isMediumElec(el),
                tight |-> isTightElec(el)]
    /\ pc' = "elec"
    /\ UNCHANGED <<plugin, event, ev_, out, prVtx, el, nullDeref, mu, me0>>

NextElec == EvalElec

SpecElec == InitElec /\ [][NextElec]_vars

(***************************************************************************)
(* The ME0 muon selections on their own: mu is drawn from ME0Grid;         *)
(* EvalME0New applies to it what PatMuonFilter::produce computes for one  *)
(* muon (the clamped cuts and isLooseME0, isMediumME0, isTightME0, lines   *)
(* 164-182), EvalME0Sel the pull/distance selection with the loose cuts of *)
(* the ntuple (line 670), ProduceME0 the whole of produce.                 *)
(* Segments: inside every cut; outside the deltaPhi and the X cuts;        *)
(* inside the loose but outside the tight deltaEta cut and outside the Y   *)
(* cuts; outside the bend and the direction cuts.  Chamber 3 is not in the *)
(* geometry.                                                               *)
(***************************************************************************)
SegGood == Segment(1, 1, 110)

SegBadX == Segment(100, 1, 110)

SegLooseEta == Segment(1, 60, 110)

SegBadDir == Segment(1, 1, 6000)

UnknownChamber == 3

ME0MatchLists ==
    {NoMatch, GoodMatch, LooseMatch, BadMatch, OtherDetMatch,
     <<Chamber(1, ME0Detector, <<SegBadDir>>)>>,
     <<Chamber(1, ME0Detector, <<SegGood, SegBadX>>)>>,
     <<Chamber(1, ME0Detector, <<SegBadX, SegGood>>)>>,
     <<Chamber(1, ME0Detector, <<SegGood>>), Chamber(2, ME0Detector, <<SegBadX>>)>>,
     <<Chamber(2, ME0Detector, <<SegBadX>>), Chamber(1, ME0Detector, <<SegGood>>)>>,
     <<Chamber(1, ME0Detector, <<SegGood>>), Chamber(1, 3, <<SegBadX>>)>>,
     <<Chamber(1, ME0Detector, <<SegGood>>), Chamber(2, ME0Detector, <<>>)>>,
     <<Chamber(UnknownChamber, ME0Detector, <<SegGood>>)>>,
     <<Chamber(UnknownChamber, ME0Detector, <<SegBadX>>), Chamber(1, ME0Detector, <<SegGood>>)>>,
     <<Chamber(1, ME0Detector, <<SegBadX>>), Chamber(UnknownChamber, ME0Detector, <<SegGood>>)>>,
     <<Chamber(UnknownChamber, ME0Detector, <<>>)>>,
     <<Chamber(UnknownChamber, 3, <<SegGood>>)>>}

\* momenta on both sides of every kink of the clamped cuts
MomGrid == {1, 10, 21, 22, 37, 38, 48, 49, 100, 101, 1000}

ME0Grid ==
    {[Muon(1000, 500, 0, 0, m, trk) EXCEPT !.p = p, !.dz = dz, !.isME0Muon = @ /\ flag] :
        m \in ME0MatchLists, p \in MomGrid, trk \in BOOLEAN, dz \in {10, 60},
        flag \in BOOLEAN}

InitME0 ==
    /\ plugin = "PatMuonFilter"
    /\ event = EmptyEvent
    /\ ev_ = FilledRecord(0, 0)
    /\ out = EmptyOut("none")
    /\ prVtx = -1
    /\ pc = "init"
    /\ el = NoElec
    /\ elId = NoElecId
    /\ nullDeref \in NullDerefOutcomes
    /\ mu \in ME0Grid
    /\ me0 = NoME0

EvalME0New ==
    /\ ~me0.done
    /\ me0' = IF ME0NewCrashes(mu)
              THEN [me0 EXCEPT !.done = TRUE, !.crashed = TRUE]
              ELSE [me0 EXCEPT
                    !.done = TRUE,
                    !.isLooseME0 = FilterIsLooseME0(mu),
                    !.isMediumME0 = FilterIsMediumME0(mu),
                    !.isTightME0 = FilterIsTightME0(mu),
                    !.dPhiCutLoose = ClampCut(DPhiK, mu.p, LooseDPhiMax),
                    !.dPhiBendCutLoose = ClampCut(DPhiBendK, mu.p, LooseDPhiBendMax),
                    !.dPhiCutTight = ClampCut(DPhiK, mu.p, TightDPhiMax),
                    !.dPhiBendCutTight = ClampCut(DPhiBendK, mu.p, TightDPhiBendMax)]
    /\ pc' = "me0"
    /\ UNCHANGED <<plugin, event, ev_, out, prVtx, el, elId, nullDeref, mu>>

EvalME0Sel ==
    /\ ~me0.selDone
    /\ me0' = [me0 EXCEPT
               !.selDone = TRUE,
               !.isME0MuonSel = isME0MuonSel(mu, PullCut, DistCut, PullCut, DistCut,
                                             NtLooseDPhi)]
    /\ pc' = "me0"
    /\ UNCHANGED <<plugin, event, ev_, out, prVtx, el, elId, nullDeref, mu>>

\* produce on an event holding this muon alone, with a valid vertex
ProduceME0 ==
    /\ out.status = "none"
    /\ Produce([EmptyEvent EXCEPT !.vertices = <<GoodVtx>>, !.muons = <<mu>>])

NextME0 == EvalME0New \/ EvalME0Sel \/ ProduceME0

SpecME0 == InitME0 /\ [][NextME0]_vars

(***************************************************************************)
(* Events that vary the generator entries a reconstructed object can be    *)
(* associated with: generator leptons 0.05, exactly 0.4 and 0.405 away     *)
(* from the 100 GeV muon at (0, 0), and a generator electron 0.025 away;   *)
(* generator jets 0.13, exactly 0.4 and 1.0 away from the jet at (0, 0.02).*)
(* The event with everything is also taken as real data and without a      *)
(* vertex, and followed or preceded by the others.                         *)
(***************************************************************************)
GenNear == Particle(13, 1000, 10, 0)

GenEdge == Particle(-13, 900, 80, 0)

GenFar == Particle(13, 900, 81, 0)

GenElecNear == Particle(11, 1000, 5, 0)

GenLepKinds == {GenNear, GenFar}

GenJetNear == GenJet(900, 0, 30, <<>>)

GenJetEdge == GenJet(800, 80, 4, <<>>)

GenJetFar == GenJet(800, 200, 4, <<>>)

GenJetKinds == {GenJetEdge, GenJetFar}

MatchedEvent ==
    [EmptyEvent EXCEPT !.vertices = <<GoodVtx>>, !.muons = <<StdMuon>>,
                       !.jets = <<FarMuonJet>>, !.genParts = <<GenNear, GenEdge>>,
                       !.genJets = <<GenJetNear, GenJetEdge>>]

GenEvents ==
    {[EmptyEvent EXCEPT !.vertices = <<GoodVtx>>, !.muons = <<StdMuon>>, !.genParts = g] :
        g \in SeqsUpTo(GenLepKinds, MaxObj)
              \cup {<<GenElecNear, GenNear>>, <<GenNear, GenElecNear>>, <<GenEdge>>,
                    <<GenEdge, GenNear>>, <<GenEdge, GenFar>>}}
    \cup {[EmptyEvent EXCEPT !.vertices = <<GoodVtx>>, !.jets = <<FarMuonJet>>,
                             !.genJets = j] :
            j \in SeqsUpTo(GenJetKinds, MaxObj)}
    \cup {MatchedEvent, [MatchedEvent EXCEPT !.isRealData = TRUE],
          [MatchedEvent EXCEPT !.vertices = <<>>, !.genParts = <<GenFar>>,
                               !.genJets = <<>>]}

NextGen == \E e \in GenEvents : Analyze(e)

SpecGen == Init /\ [][NextGen]_vars

(***************************************************************************)
(* Whole events: real data or simulation, a valid vertex or none, and the  *)
(* collections empty, all holding one object, or only some of them.        *)
(***************************************************************************)
GenMuon == Particle(13, 1000, 10, 0)

FullEvent ==
    [EmptyEvent EXCEPT !.muons = <<StdMuon>>, !.elecs = <<GoodElec>>,
                       !.jets = <<FarMuonJet>>, !.mets = <<Met(300, 100)>>,
                       !.pfCands = <<PfMuon>>, !.genParts = <<GenMuon>>,
                       !.genJets = <<HadronJet>>]

Contents ==
    {EmptyEvent, FullEvent,
     [FullEvent EXCEPT !.elecs = <<>>, !.jets = <<>>, !.genJets = <<>>, !.mets = <<>>],
     [FullEvent EXCEPT !.muons = <<>>, !.pfCands = <<>>, !.genParts = <<>>]}

Events ==
    {[c EXCEPT !.isRealData = d, !.vertices = v] :
        c \in Contents, d \in BOOLEAN, v \in {<<>>, <<GoodVtx>>}}

Next == \E e \in Events : Produce(e) \/ Analyze(e)

Spec == Init /\ [][Next]_vars

(***************************************************************************)
(* Claims about the primary vertex.                                        *)
(***************************************************************************)
C3_ValidVertex(v) == ~v.isFake /\ v.ndof > 4

C3_NoValidVertex(vertices) == \A i \in 1..Len(vertices) : ~C3_ValidVertex(vertices[i])

\* C2: when the vertex list holds no valid vertex, produce terminates
\* normally and emits its six sequences.
C2_NoVertexNotFatal ==
    (pc = "produce" /\ C3_NoValidVertex(event.vertices)) => out.status = "ok"

\* C3: the primary-vertex index computed by produce and by recoAnalysis is
\* the smallest i with vertex[i] not fake and ndof > 4, and -1 when there is
\* no such vertex.
C3_PrimaryVertexIsFirstValid ==
    pc \in {"produce", "analyze"} =>
        IF C3_NoValidVertex(event.vertices) THEN prVtx = -1
        ELSE /\ prVtx \in 0..(Len(event.vertices) - 1)
             /\ C3_ValidVertex(event.vertices[prVtx + 1])
             /\ \A i \in 0..(prVtx - 1) : ~C3_ValidVertex(event.vertices[i + 1])

C3_Witness ==
    /\ pc = "analyze"
    /\ Len(event.vertices) >= 2
    /\ \A i \in 1..2 : C3_ValidVertex(event.vertices[i])
    /\ prVtx = 0

(***************************************************************************)
(* Claims about the muon tiers.                                            *)
(***************************************************************************)
C4_RelIso(m) == (1000 * (m.chIso + m.nhIso + m.phIso)) \div m.pt

C4_Aligned(ms, isos) ==
    /\ Len(ms) = Len(isos)
    /\ \A i \in 1..Len(ms) : isos[i] = C4_RelIso(ms[i])

\* C4: in the filter output each tier's muon sequence and its isolation
\* sequence have the same length, and the isolation at i is the relative
\* isolation (the three lepton-subtracted sums over pt) of the muon at i.
C4_IsoIndexAligned ==
    (pc = "produce" /\ out.status = "ok") =>
        /\ C4_Aligned(out.LooseMuons, out.LooseMuonRelIso)
        /\ C4_Aligned(out.MediumMuons, out.MediumMuonRelIso)
        /\ C4_Aligned(out.TightMuons, out.TightMuonRelIso)

C4_Witness ==
    /\ pc = "produce"
    /\ out.status = "ok"
    /\ Len(out.LooseMuons) = 2
    /\ Len(out.LooseMuonRelIso) = 2
    /\ out.LooseMuonRelIso[1] # out.LooseMuonRelIso[2]
    /\ Len(out.TightMuons) = 1

C6_Forward(m) == Abs(m.eta) > 480

C6_FilterPresel(m) == m.pt >= 20 /\ Abs(m.eta) <= 600

C6_FilterLoose(m) ==
    C6_FilterPresel(m) /\ (m.isLooseMuon \/ (C6_Forward(m) /\ FilterIsLooseME0(m)))

C6_FilterMedium(m) ==
    C6_FilterPresel(m) /\ (m.isMediumMuon \/ (C6_Forward(m) /\ FilterIsMediumME0(m)))

C6_FilterTight(m) ==
    C6_FilterPresel(m) /\ (m.isTightMuon \/ (C6_Forward(m) /\ FilterIsTightME0(m)))

C6_FilterTiers ==
    (pc = "produce" /\ out.status = "ok") =>
        /\ out.LooseMuons = SelectSeq(event.muons, C6_FilterLoose)
        /\ out.MediumMuons = SelectSeq(event.muons, C6_FilterMedium)
        /\ out.TightMuons = SelectSeq(event.muons, C6_FilterTight)

C6_NtPresel(m) == m.pt >= 100 /\ Abs(m.eta) <= 600

C6_NtME0(m, dPhi) == isME0MuonSel(m, 3, 40, 3, 40, dPhi)

\* the identifier of the k-th stored muon under the stated rule
C6_NtIdIs(k, m) ==
    ev_.l_id[k - 1] =
        B2I(m.isTightMuon \/ (C6_Forward(m) /\ C6_NtME0(m, 1000)))
        + 2 * B2I(m.isMediumMuon \/ (C6_Forward(m) /\ C6_NtME0(m, 3000)))
        + 4 * B2I(m.isLooseMuon \/ (C6_Forward(m) /\ C6_NtME0(m, 5000)))

\* C6 as stated: in the filter and in the ntuple, a preselected muon has
\* tier T iff it passes the standard predicate for T (whatever its eta) or
\* (|eta| > 2.4 and it passes the forward ME0 selection for T).
C6_TierIffStdOrForward ==
    /\ C6_FilterTiers
    /\ (pc = "analyze" /\ prVtx >= 0) =>
          LET stored == SelectSeq(event.muons, C6_NtPresel)
          IN  \A k \in 1..Len(stored) : C6_NtIdIs(k, stored[k])

(***************************************************************************)
(* Claims about the reconstructed jets.                                    *)
(***************************************************************************)
C5_IsLepton(lep, jet) ==
    /\ 100 * Abs(jet.pt - lep.pt) < lep.pt
    /\ DeltaR2(lep.eta, lep.phi, jet.eta, jet.phi) < 4

C5_Retained(jet) ==
    /\ jet.pt >= 200
    /\ Abs(jet.eta) <= 1000
    /\ ~\E i \in 1..Len(event.elecs) : C5_IsLepton(event.elecs[i], jet)
    /\ ~\E i \in 1..Len(event.muons) : C5_IsLepton(event.muons[i], jet)

C10_JetIdOfSameJet ==
    (pc = "analyze" /\ prVtx >= 0) =>
        LET kept == SelectSeq(event.jets, C5_Retained)
        IN  \A k \in 1..Min(ev_.nj, Len(kept)) :
               ev_.j_id[k - 1] = B2I(kept[k].tightId) + 2 * B2I(kept[k].looseId)

(***************************************************************************)
(* Claims about the isolation sums.                                        *)
(***************************************************************************)
C8_IsSelf(c, o) == o.pt = c.pt /\ o.eta = c.eta /\ o.phi = c.phi

C8_StoredLepton(c) == IsLepton(c.pdgId) /\ c.pt >= 100 /\ Abs(c.eta) <= 600

RECURSIVE C8_Flatten(_)
C8_Flatten(jets) ==
    IF jets = <<>> THEN <<>> ELSE Head(jets).constituents \o C8_Flatten(Tail(jets))

\* C8: an isolation pool (the constituents of the generator jets, all the
\* PF candidates) that holds the candidate itself and nothing else gives
\* isolation 0.
C8_SelfOnlyPoolIsZero ==
    pc = "analyze" =>
        /\ LET stored == SelectSeq(event.genParts, C8_StoredLepton)
               pool   == C8_Flatten(event.genJets)
           IN  \A k \in 1..Len(stored) :
                  (pool # <<>> /\ \A i \in 1..Len(pool) : C8_IsSelf(stored[k], pool[i]))
                      => ev_.gl_relIso[k - 1] = 0
        /\ (prVtx >= 0 /\ Len(event.pfCands) = 1 /\ C8_StoredLepton(event.pfCands[1]))
              => (ev_.npf = 1 /\ ev_.pf_relIso[0] = 0)

C9_Cone(c) == IF Abs(c.pdgId) = 13 THEN 80 ELSE 60

\* the pt of the pool entries within the cone of the candidate, with the
\* entries closer than 0.01 (the candidate itself) counted or not
RECURSIVE C9_Sum(_, _, _)
C9_Sum(c, pool, withSelf) ==
    IF pool = <<>> THEN 0
    ELSE LET o  == Head(pool)
             d2 == DeltaR2(c.eta, c.phi, o.eta, o.phi)
         IN  C9_Sum(c, Tail(pool), withSelf)
             + (IF d2 <= C9_Cone(c) * C9_Cone(c) /\ (withSelf \/ d2 >= 4) THEN o.pt ELSE 0)

C9_GenJetKept(jet) ==
    /\ jet.pt >= 200
    /\ Abs(jet.eta) <= 1000
    /\ ~\E i \in 1..Len(event.genParts) :
           IsLepton(event.genParts[i].pdgId) /\ C5_IsLepton(event.genParts[i], jet)

C9_GenPool(c) ==
    LET kept == SelectSeq(event.genJets, C9_GenJetKept)
        Near(jet) == DeltaR2(c.eta, c.phi, jet.eta, jet.phi) <= 140 * 140
    IN  C8_Flatten(SelectSeq(kept, Near))

C9_GenCone ==
    pc = "analyze" =>
        LET stored == SelectSeq(event.genParts, C8_StoredLepton)
        IN  \A k \in 1..Len(stored) :
               ev_.gl_relIso[k - 1] =
                   (1000 * C9_Sum(stored[k], C9_GenPool(stored[k]), FALSE)) \div stored[k].pt

\* C9: the generator-lepton and the PF-lepton isolation sum the pool
\* entries within 0.4 of a muon and within 0.3 of an electron.
C9_ConeByType ==
    /\ C9_GenCone
    /\ (pc = "analyze" /\ prVtx >= 0) =>
          LET stored == SelectSeq(event.pfCands, C8_StoredLepton)
          IN  \A k \in 1..Len(stored) :
                 \E withSelf \in BOOLEAN :
                    ev_.pf_relIso[k - 1] =
                        (1000 * C9_Sum(stored[k], event.pfCands, withSelf)) \div stored[k].pt

C1_Count(f) ==
    IF f \in {"gl_pid", "gl_pt", "gl_phi", "gl_eta", "gl_mass", "gl_relIso"} THEN "ngl"
    ELSE IF f \in {"gj_pt", "gj_phi", "gj_eta", "gj_mass", "gj_pid"} THEN "ngj"
    ELSE IF f \in {"l_id", "l_pid", "l_pt", "l_phi", "l_eta", "l_relIso", "l_g"} THEN "nl"
    ELSE IF f \in {"met_pt", "met_phi"} THEN "nmet"
    ELSE IF f \in {"pf_pid", "pf_pt", "pf_eta", "pf_phi", "pf_mass", "pf_relIso", "pf_hp"}
         THEN "npf"
    ELSE "nj"

\* the counters of a record and the cells of its arrays below their counters
C1_Emitted(rec) ==
    [f \in Counters \cup Arrays |->
        IF f \in Counters THEN rec[f]
        ELSE [k \in {i \in Idx : i < rec[C1_Count(f)]} |-> rec[f][k]]]

\* C1: the record emitted for an event depends on that event only: it is
\* the record the same event gives when no event came before it.
C1_NoCrossEventState ==
    pc = "analyze" => C1_Emitted(ev_) = C1_Emitted(analyze(event, FilledRecord(0, 0)))

(***************************************************************************)
(* Claims about empty collections.                                         *)
(***************************************************************************)
\* C11: the record emitted for an event has count zero for every object
\* type whose input collection is empty in that event (leptons: muons and
\* electrons), whatever events came before.
C11_EmptyInputEmptyOutput ==
    pc = "analyze" =>
        /\ (event.muons = <<>> /\ event.elecs = <<>>) => ev_.nl = 0
        /\ event.jets = <<>> => ev_.nj = 0
        /\ event.mets = <<>> => ev_.nmet = 0
        /\ event.pfCands = <<>> => ev_.npf = 0
        /\ event.genParts = <<>> => ev_.ngl = 0
        /\ event.genJets = <<>> => ev_.ngj = 0

(***************************************************************************)
(* Claims about the ME0 selections.                                        *)
(***************************************************************************)
C12_IsKnown(chamber) == chamber.id \in KnownChambers

\* the muon has an ME0 chamber match with a segment whose chamber id the
\* geometry does not know
C12_LookupFails ==
    /\ mu.isME0Muon
    /\ \E i \in 1..Len(mu.matches) :
          /\ mu.matches[i].detector = 5
          /\ mu.matches[i].me0Matches # <<>>
          /\ ~C12_IsKnown(mu.matches[i])

\* the muon without the chambers the geometry does not know
C12_KnownOnly == [mu EXCEPT !.matches = SelectSeq(@, C12_IsKnown)]

\* C12: when the geometry lookup of a chamber fails, isME0MuonSelNew does
\* not crash and gives what the remaining chambers give: the pairs of the
\* unknown chamber count as non-matching.
C12_MissingGeometryNotFatal ==
    (me0.done /\ C12_LookupFails) =>
        /\ ~me0.crashed
        /\ me0.isLooseME0 = FilterIsLooseME0(C12_KnownOnly)
        /\ me0.isTightME0 = FilterIsTightME0(C12_KnownOnly)

(***************************************************************************)
(* Claims about the electron energy-momentum variable.                     *)
(***************************************************************************)
\* every cut of a tier but the one on Ooemoop
C13_OtherCuts(e, sieie, dEtaIn, dPhiIn, hoe, chIso) ==
    /\ ~(Abs(e.scEta) > 1479 /\ Abs(e.scEta) < 1556)
    /\ e.sieie <= sieie
    /\ Abs(e.dEtaIn) <= dEtaIn
    /\ Abs(e.dPhiIn) <= dPhiIn
    /\ e.hOverE <= hoe
    /\ 1000 * e.sumChargedHadronPt <= chIso * e.pt
    /\ ~e.hasConv

\* the tier's outcome when Ooemoop is 0 for ecalEnergy = 0, 998 for a
\* non-finite ecalEnergy and |1/E - (E/p)/E| = |1 - E/p| / |E| otherwise,
\* cut in 0.01 / GeV, E in MeV, E/p in 0.01
C13_Tier(e, others, cut) ==
    IF e.ecalEnergy.kind # "finite" THEN others /\ 100 * 998 <= cut
    ELSE IF e.ecalEnergy.v = 0 THEN others
    ELSE others /\ 1000 * Abs(100 - e.eOverP) <= cut * Abs(e.ecalEnergy.v)

\* C13: in each tier Ooemoop is 0 for ecalEnergy = 0, 998 for a non-finite
\* ecalEnergy and |1/E - (E/p)/E| otherwise; an electron with non-finite
\* ecalEnergy fails the three tiers, one with ecalEnergy = 0 passes a tier
\* exactly when it passes the tier's other cuts.
C13_OoemoopSentinel ==
    elId.done =>
        /\ elId.loose = C13_Tier(el, C13_OtherCuts(el, 2992, 4119, 5176, 6741, 2500), 7376)
        /\ elId.medium = C13_Tier(el, C13_OtherCuts(el, 1609, 1766, 3130, 7371, 1325), 2260)
        /\ elId.tight = C13_Tier(el, C13_OtherCuts(el, 1614, 1322, 6129, 4492, 1255), 1826)
        /\ el.ecalEnergy.kind # "finite" => ~elId.loose /\ ~elId.medium /\ ~elId.tight

\* an electron with NaN energy that passes every other loose cut and is
\* rejected, and the state of one with zero energy that is kept, are both
\* reached; the witness is the first
C13_Witness ==
    /\ elId.done
    /\ el.ecalEnergy.kind = "nan"
    /\ C13_OtherCuts(el, 2992, 4119, 5176, 6741, 2500)
    /\ ~elId.loose

C13_ZeroEnergyKept ==
    /\ elId.done
    /\ el.ecalEnergy = Finite(0)
    /\ elId.tight

\* the criterion of one (chamber, segment) pair: deltaEta, deltaPhi and
\* deltaPhiBend all below their cuts.  For a chamber the geometry does not
\* know the three are whatever the null dereference left.
C14_PairMatches(chamber, segment, etaCut, phiCut, bendCut) ==
    IF chamber.id \notin KnownChambers THEN nullDeref = "match"
    ELSE LET g == ChamberGeom(chamber.id)
             deltaEta == Abs((g.eta0 - 10 * chamber.y) - (g.eta0 - 10 * segment.y))
             deltaPhi == Abs((g.phi0 + 10 * chamber.x) - (g.phi0 + 10 * segment.x))
             bend     == Abs(Abs(Atan(chamber.dXdZ) - Atan(segment.dXdZ))
                             - (chamber.dXdZ * g.bend) \div 100)
         IN  deltaEta < etaCut /\ deltaPhi < phiCut /\ bend < bendCut

C14_AnyPair(etaCut, phiCut, bendCut) ==
    /\ mu.isME0Muon
    /\ \E i \in 1..Len(mu.matches) :
          /\ mu.matches[i].detector = 5
          /\ \E j \in 1..Len(mu.matches[i].me0Matches) :
                C14_PairMatches(mu.matches[i], mu.matches[i].me0Matches[j],
                                etaCut, phiCut, bendCut)

\* C14: whenever isME0MuonSelNew returns, its result is true iff the muon is
\* an ME0 muon and some (ME0 chamber, segment) pair is below the three cuts;
\* a later pair does not reset a match and no ME0 segment gives false.
\* isLooseME0 is the call with the loose cuts; isTightME0 the call with the
\* tight cuts and the track requirements.
C14_AngleEtaMatching ==
    (me0.done /\ ~me0.crashed) =>
        /\ me0.isLooseME0 = C14_AnyPair(770, me0.dPhiCutLoose, me0.dPhiBendCutLoose)
        /\ me0.isTightME0 =
              (/\ C14_AnyPair(480, me0.dPhiCutTight, me0.dPhiBendCutTight)
               /\ TrkIpxy(mu) /\ TrkIpz(mu) /\ TrkValidPxlHit(mu) /\ TrkHighPurity(mu))

\* a matching pair followed by a non-matching one in the same chamber
C14_Witness ==
    /\ me0.done
    /\ ~me0.crashed
    /\ mu.isME0Muon
    /\ Len(mu.matches) = 1
    /\ mu.matches[1].me0Matches = <<SegGood, SegBadX>>
    /\ me0.isLooseME0

\* the X, Y and direction criteria of the pull/distance variant for one
\* pair, with the loose cuts of the ntuple: pull below 3 or residual below
\* 4 cm in X and in Y, and |atan(dXdZ) difference| below 0.5
C15_PairMatches(chamber, segment) ==
    LET dx == Abs(chamber.x - segment.x)
        dy == Abs(chamber.y - segment.y)
        ex == chamber.xErr + segment.xErr
        ey == chamber.yErr + segment.yErr
    IN  /\ (ex > 0 /\ dx * dx < 9 * ex) \/ dx < 40
        /\ (ey > 0 /\ dy * dy < 9 * ey) \/ dy < 40
        /\ Abs(Atan(chamber.dXdZ) - Atan(segment.dXdZ)) < 5000

\* C15: the pull/distance variant returns true for an ME0 muon iff at least
\* one (ME0 chamber, segment) pair satisfies the X, Y and direction criteria
\* together; the existence of such a pair does not depend on the order of
\* the matches, so neither does the result.
C15_PullDistanceAnyPair ==
    me0.selDone =>
        me0.isME0MuonSel =
            (/\ mu.isME0Muon
             /\ \E i \in 1..Len(mu.matches) :
                   /\ mu.matches[i].detector = 5
                   /\ \E j \in 1..Len(mu.matches[i].me0Matches) :
                         C15_PairMatches(mu.matches[i], mu.matches[i].me0Matches[j]))

(***************************************************************************)
(* Claims about the generator association.                                 *)
(***************************************************************************)
\* deltaR <= 0.4 between a generator entry and a reconstructed entry
C16_Within(eta1, phi1, eta2, phi2) == DeltaR2(eta1, phi1, eta2, phi2) <= 80 * 80

\* the generator leptons of the record that qualify for the stored lepton k
C16_LepCandidates(k) ==
    {ig \in 0..(ev_.ngl - 1) :
        /\ Abs(ev_.gl_pid[ig]) = Abs(ev_.l_pid[k])
        /\ C16_Within(ev_.gl_eta[ig], ev_.gl_phi[ig], ev_.l_eta[k], ev_.l_phi[k])}

\* the generator jets of the record that qualify for the stored jet k
C16_JetCandidates(k) ==
    {ig \in 0..(ev_.ngj - 1) :
        C16_Within(ev_.gj_eta[ig], ev_.gj_phi[ig], ev_.j_eta[k], ev_.j_phi[k])}

C16_MaxOf(S) == CHOOSE x \in S : \A y \in S : y <= x

C16_MinOf(S) == CHOOSE x \in S : \A y \in S : x <= y

\* C16: after recoAnalysis has extracted the event, l_g of every stored
\* lepton is the largest qualifying generator-lepton index and j_g of every
\* stored jet the smallest qualifying generator-jet index, -1 when none
\* qualifies.
C16_AssociationAsymmetry ==
    (pc = "analyze" /\ prVtx >= 0) =>
        /\ \A k \in 0..(ev_.nl - 1) :
              ev_.l_g[k] = IF C16_LepCandidates(k) = {} THEN -1
                           ELSE C16_MaxOf(C16_LepCandidates(k))
        /\ \A k \in 0..(ev_.nj - 1) :
              ev_.j_g[k] = IF C16_JetCandidates(k) = {} THEN -1
                           ELSE C16_MinOf(C16_JetCandidates(k))

\* two qualifying generator leptons and two qualifying generator jets: the
\* lepton takes the last, the jet the first
C16_Witness ==
    /\ pc = "analyze"
    /\ prVtx >= 0
    /\ ev_.nl = 1 /\ ev_.nj = 1
    /\ C16_LepCandidates(0) = {0, 1}
    /\ C16_JetCandidates(0) = {0, 1}
    /\ ev_.l_g[0] = 1
    /\ ev_.j_g[0] = 0

\* the stored generator lepton ig of the record is the ig-th generator
\* lepton that genAnalysis stores for the current event
C18_GenLeptonOfEvent(ig) ==
    LET own == genAnalysis(event, FilledRecord(0, 0))
    IN  /\ ~event.isRealData
        /\ ig < own.ngl
        /\ ev_.gl_pid[ig] = own.gl_pid[ig]
        /\ ev_.gl_pt[ig] = own.gl_pt[ig]
        /\ ev_.gl_eta[ig] = own.gl_eta[ig]
        /\ ev_.gl_phi[ig] = own.gl_phi[ig]

\* C18: in every emitted record, l_g of a stored lepton is -1 or the index
\* below ngl of a generator lepton of the same event with the same absolute
\* particle code within deltaR <= 0.4; j_g of a stored jet is -1 or an
\* index below ngj.
C18_BackReferenceValid ==
    pc = "analyze" =>
        /\ \A k \in 0..(ev_.nl - 1) :
              \/ ev_.l_g[k] = -1
              \/ /\ 0 <= ev_.l_g[k] /\ ev_.l_g[k] < ev_.ngl
                 /\ C18_GenLeptonOfEvent(ev_.l_g[k])
                 /\ ev_.l_g[k] \in C16_LepCandidates(k)
        /\ \A k \in 0..(ev_.nj - 1) :
              \/ ev_.j_g[k] = -1
              \/ (0 <= ev_.j_g[k] /\ ev_.j_g[k] < ev_.ngj)

(***************************************************************************)
(* Claims about the clamped ME0 cuts and the forward tiers.                *)
(***************************************************************************)
\* clamp(k / p, k / 100, ceiling) in units of 0.0001 rad
C17_Clamp(k, p, ceiling) ==
    LET v == k \div p
        floor == k \div 100
    IN  IF v > ceiling THEN ceiling ELSE IF v < floor THEN floor ELSE v

\* the cut computed for the momentum of mu is the clamp, lies within
\* [k / 100, ceiling], and no larger momentum of the grid has a larger cut
C17_CutOk(cut, k, ceiling) ==
    /\ cut = C17_Clamp(k, mu.p, ceiling)
    /\ k \div 100 <= cut /\ cut <= ceiling
    /\ \A q \in MomGrid : q >= mu.p => C17_Clamp(k, q, ceiling) <= cut

\* C17: the deltaPhi cut (k = 1.2) and the bend cut (k = 0.2) of each tier
\* are non-increasing in p and within [k/100, ceiling]; the loose deltaPhi
\* cut is 0.056 at p = 10 and 0.012 at p = 1000.
C17_ClampedCuts ==
    (me0.done /\ ~me0.crashed) =>
        /\ C17_CutOk(me0.dPhiCutLoose, 12000, 560)
        /\ C17_CutOk(me0.dPhiCutTight, 12000, 320)
        /\ C17_CutOk(me0.dPhiBendCutLoose, 2000, 96)
        /\ C17_CutOk(me0.dPhiBendCutTight, 2000, 41)
        /\ mu.p = 10 => me0.dPhiCutLoose = 560
        /\ mu.p = 1000 => me0.dPhiCutLoose = 120

C17_Witness ==
    /\ me0.done
    /\ ~me0.crashed
    /\ mu.p = 1000
    /\ me0.dPhiCutLoose = 120
    /\ me0.dPhiBendCutTight = 20

\* TRUE when the muon of the event is in the sequence
C19_InTier(seq) == Len(seq) = 1

\* C19: isTightME0 implies isMediumME0 and isMediumME0 implies isLooseME0;
\* a muon that fails the standard predicates and is in TightMuons is also
\* in MediumMuons and in LooseMuons.
C19_ForwardTiersNested ==
    /\ (me0.done /\ ~me0.crashed) =>
          /\ me0.isTightME0 => me0.isMediumME0
          /\ me0.isMediumME0 => me0.isLooseME0
    /\ (pc = "produce" /\ out.status = "ok" /\ event.muons = <<mu>>
        /\ ~mu.isLooseMuon /\ ~mu.isMediumMuon /\ ~mu.isTightMuon) =>
          /\ C19_InTier(out.TightMuons) => C19_InTier(out.MediumMuons)
          /\ C19_InTier(out.MediumMuons) => C19_InTier(out.LooseMuons)

\* a forward muon that passes the three ME0 tiers and is in the three
\* sequences
C19_Witness ==
    /\ me0.done /\ ~me0.crashed
    /\ me0.isTightME0 /\ me0.isMediumME0 /\ me0.isLooseME0
    /\ out.status = "ok"
    /\ event.muons = <<mu>>
    /\ C19_InTier(out.TightMuons) /\ C19_InTier(out.MediumMuons)
    /\ C19_InTier(out.LooseMuons)

\* loose only: inside the loose cuts, outside the tight deltaEta cut
C19_LooseOnly ==
    /\ me0.done /\ ~me0.crashed
    /\ me0.isLooseME0 /\ ~me0.isMediumME0 /\ ~me0.isTightME0

====
